---- MODULE Spec2Model ----
(***************************************************************************)
(* Model of the heimdall entity fetcher (polygon/heimdall/entity_fetcher.go)*)
(* and of the generated JSON codec of types.Withdrawal.                     *)
(*                                                                         *)
(* A call advances one collaborator call per step; the collaborator's     *)
(* answers are chosen by the environment.  Every collaborator call is      *)
(* recorded in `calls`.                                                    *)
(*                                                                         *)
(*   Spec        one call of a public fetcher method at a time             *)
(*   SpecPaging  FetchAllEntities alone, its steps taken fairly            *)
(*   SpecCancel  both loops, with a caller that cancels the context        *)
(*   SpecWide    ids at the ends of the signed and unsigned numbers        *)
(*   SpecConc    two goroutines calling the methods concurrently           *)
(*   SpecCodec   the Withdrawal JSON codec                                 *)
(***************************************************************************)
EXTENDS Integers, Sequences, FiniteSets, Bags, TLC

VARIABLES
    hasPageFn,    \* f.fetchEntitiesPage != nil (fixed at construction)
    pc,           \* position of the running call
    op,           \* the public method the caller invoked
    idRange,      \* argument of FetchEntitiesRange / ...Sequentially
    upstream,     \* what the remote listing holds during this call
    page,         \* loop variable of FetchAllEntities
    entities,     \* accumulator of FetchAllEntities
    i,            \* loop variable of ClosedRangeMap
    results,      \* accumulator of ClosedRangeMap
    allEntities,  \* local of FetchEntitiesRange (bulk branch)
    ticker,       \* progressLogTicker: [state, pending]
    log,          \* logger.Debug records emitted by this call
    calls,        \* collaborator calls issued by this call, with their answers
    ret,          \* what the call returned
    ctx,          \* the context.Context the caller handed to the call
    cpc,          \* position of the codec scenario
    orig,         \* the Withdrawal MarshalJSON was called on
    input,        \* the JSON object handed to UnmarshalJSON
    before,       \* the target of UnmarshalJSON before the call
    w,            \* the target of UnmarshalJSON after the call
    cerr,         \* the error UnmarshalJSON returned
    procs,        \* concurrent calls: the locals of each of them
    cells,        \* concurrent calls: the entities accumulators
    timers        \* concurrent calls: the progress tickers

fvars == <<hasPageFn, pc, op, idRange, upstream, page, entities, i, results,
           allEntities, ticker, log, calls, ret, ctx>>

cvars == <<cpc, orig, input, before, w, cerr>>

kvars == <<procs, cells, timers>>

vars == <<fvars, cvars, kvars>>

-----------------------------------------------------------------------------
(* Machine words.  TLC's integers are 32 bits wide, so the 64-bit words of *)
(* the program are modelled WordNibbles hex digits wide with the same      *)
(* wrap-around.                                                            *)
WordNibbles == 4

WordBits == 4 * WordNibbles

UintMod == 2 ^ WordBits

uint64_clamp(x) == IF x < 0 THEN 0 ELSE x

uint64(x) == x % UintMod

int64(x) == LET u == x % UintMod IN IF u >= UintMod \div 2 THEN u - UintMod ELSE u

Min(a, b) == IF a <= b THEN a ELSE b

-----------------------------------------------------------------------------
(* Bounds of the model.                                                    *)
MaxStart == 2        \* ranges start at 0 .. MaxStart
MaxOver == 2         \* range lengths reach batchFetchThreshold + MaxOver
MaxShort == 2        \* short ranges have 1 .. MaxShort ids
MaxExtra == 3        \* large listings hold batchFetchThreshold + 1 .. + MaxExtra entities
MaxSmall == 2        \* small listings hold 0 .. MaxSmall entities
MaxSlack == 2        \* spare capacity append may leave behind the accumulator
MaxPages == 4        \* pages of a listing without end the model follows

-----------------------------------------------------------------------------
(* Program constants.                                                      *)
batchFetchThreshold == 100

pageLimit == 10000

Errors == {"ErrTimeout", "ErrNotFound"}

-----------------------------------------------------------------------------
(* ClosedRange                                                             *)
ClosedRange(s, e) == [Start |-> s, End |-> e]

RangeLen(r) == uint64(r.End + 1 - r.Start)

RangeLens == (1 .. MaxShort)
             \cup ((batchFetchThreshold - 1) .. (batchFetchThreshold + MaxOver))

Ranges == {ClosedRange(s, s + n - 1) : s \in 0 .. MaxStart, n \in RangeLens}

NoRange == ClosedRange(0, 0)

-----------------------------------------------------------------------------
(* Entities and the remote service.                                        *)
BlockStart(id) == 256 * id + 1

Entity(id) == [id |-> id, start |-> BlockStart(id)]

\* an entity whose block range starts where entity 1's does ("twin"); with
\* "dup" the service lists entity 1 twice
Twin(id) == [id |-> id, start |-> BlockStart(1)]

\* the second half first: pages arrive out of order
Rotate(s) == IF Len(s) < 2 THEN s
             ELSE LET h == Len(s) \div 2
                  IN SubSeq(s, h + 1, Len(s)) \o SubSeq(s, 1, h)

ListingSizes == (0 .. MaxSmall)
                \cup ((batchFetchThreshold + 1) .. (batchFetchThreshold + MaxExtra))

FiniteUpstreams == [n : ListingSizes, order : {"asc", "rot"},
                    extra : {"none", "twin", "dup"}, pageSize : {60, pageLimit}]

\* a listing without end: page p holds entity p, for every p
EndlessUpstream == [n |-> 0, order |-> "endless", extra |-> "none", pageSize |-> 1]

Upstreams == FiniteUpstreams \cup {EndlessUpstream}

NoUpstream == [n |-> 0, order |-> "asc", extra |-> "none", pageSize |-> pageLimit]

\* the remote listing, in the order the service delivers it
Listing(u) ==
    LET base == [k \in 1 .. u.n |-> Entity(k)]
        all  == IF u.n = 0 \/ u.extra = "none" THEN base
                ELSE IF u.extra = "twin" THEN Append(base, Twin(u.n + 1))
                ELSE Append(base, Entity(1))
    IN IF u.order = "asc" THEN all ELSE Rotate(all)

\* the collaborator's answer to fetchEntitiesPage(ctx, p, limit)
RemotePage(u, p, limit) ==
    LET l  == Listing(u)
        ps == Min(u.pageSize, limit)
        lo == (p - 1) * ps + 1
        hi == Min(p * ps, Len(l))
    IN IF u.order = "endless" THEN <<Entity(p)>>
       ELSE IF lo > Len(l) THEN <<>> ELSE SubSeq(l, lo, hi)

-----------------------------------------------------------------------------
(* slices.SortFunc with the comparator of FetchAllEntities.  The sort is   *)
(* not stable: entities with equal starts may come out in either order.    *)
cmpStart_ignore(e1, e2) == 0

\* cmp.Compare(e1.BlockNumRange().Start, e2.BlockNumRange().Start)
cmpStart(e1, e2) ==
    IF e1.start < e2.start THEN -1 ELSE IF e1.start > e2.start THEN 1 ELSE 0

\* how many elements of the sorted run acc[lo+1 .. hi] go before e (binary
\* search): those that compare less, and its equals unless tiesReversed
RECURSIVE InsertAt(_, _, _, _, _)
InsertAt(acc, e, lo, hi, tiesReversed) ==
    IF lo >= hi THEN lo
    ELSE LET mid == (lo + hi) \div 2
             c   == cmpStart(acc[mid + 1], e)
         IN IF c < 0 \/ (c = 0 /\ ~tiesReversed)
            THEN InsertAt(acc, e, mid + 1, hi, tiesReversed)
            ELSE InsertAt(acc, e, lo, mid, tiesReversed)

Insert(acc, e, tiesReversed) ==
    LET k == InsertAt(acc, e, 0, Len(acc), tiesReversed)
    IN SubSeq(acc, 1, k) \o <<e>> \o SubSeq(acc, k + 1, Len(acc))

\* acc with s[lo .. hi] inserted one after the other
RECURSIVE InsertAll(_, _, _, _, _)
InsertAll(acc, s, lo, hi, tiesReversed) ==
    IF lo > hi THEN acc
    ELSE IF lo = hi THEN Insert(acc, s[lo], tiesReversed)
    ELSE LET mid  == (lo + hi) \div 2
             left == InsertAll(acc, s, lo, mid, tiesReversed)
         IN IF Len(left) >= 0    \* the left run is built first
            THEN InsertAll(left, s, mid + 1, hi, tiesReversed)
            ELSE left

SortFunc_none(s, tiesReversed) == s

\* slices.SortFunc(s, cmpStart): s in ascending order, equal elements in
\* their order of arrival or, tiesReversed, in the opposite order
SortFunc(s, tiesReversed) == InsertAll(<<>>, s, 1, Len(s), tiesReversed)

\* both orders of equal elements, when there are any
SortOutcomes(s) ==
    LET a == SortFunc(s, FALSE)
    IN IF \E k \in 1 .. Len(a) - 1 : cmpStart(a[k], a[k + 1]) = 0
       THEN {a, SortFunc(s, TRUE)}
       ELSE {a}

-----------------------------------------------------------------------------
(* Call records and return values.                                         *)
Call(c, fn, arg, limit, err, ents, id) ==
    [ctx |-> c, fn |-> fn, arg |-> arg, limit |-> limit, err |-> err,
     ents |-> ents, id |-> id]

\* contexts: the one the caller holds, and context.Background()
CallerCtx == [name |-> "caller", cancelled |-> FALSE]

Background == [name |-> "background", cancelled |-> FALSE]

PassCtx_background(c) == Background

\* the ctx argument of a collaborator call is the ctx parameter of the method
PassCtx(c) == c

\* what a collaborator may answer with: success, one of its errors, or the
\* context's error once the context it was given is cancelled
Answers(c) == {"nil"} \cup Errors
              \cup (IF c.cancelled THEN {"context.Canceled"} ELSE {})

NoRet == [kind |-> "none", val |-> <<>>, id |-> 0, err |-> "nil"]

RetOk(val) == [kind |-> "ok", val |-> val, id |-> 0, err |-> "nil"]

RetErr_partial(val, err) == [kind |-> "err", val |-> val, id |-> 0, err |-> err]

\* return nil, err
RetErr(val, err) == [kind |-> "err", val |-> <<>>, id |-> 0, err |-> err]

RetPanic == [kind |-> "panic", val |-> <<>>, id |-> 0, err |-> "nil"]

NoTicker == [state |-> "none", pending |-> FALSE]

-----------------------------------------------------------------------------
(* The Withdrawal JSON codec.  A JSON text is a sequence of characters; a  *)
(* JSON object is a record of its four members, each absent, null, a       *)
(* string or some other value.                                             *)
AddressLength == 20

HexChars == <<"0", "1", "2", "3", "4", "5", "6", "7",
              "8", "9", "a", "b", "c", "d", "e", "f">>

UpperHexChars == <<"0", "1", "2", "3", "4", "5", "6", "7",
                   "8", "9", "A", "B", "C", "D", "E", "F">>

badNibble == -1

decodeNibble(c) ==
    IF \E k \in 1 .. 16 : HexChars[k] = c
    THEN (CHOOSE k \in 1 .. 16 : HexChars[k] = c) - 1
    ELSE IF \E k \in 1 .. 16 : UpperHexChars[k] = c
    THEN (CHOOSE k \in 1 .. 16 : UpperHexChars[k] = c) - 1
    ELSE badNibble

has0xPrefix(t) == Len(t) >= 2 /\ t[1] = "0" /\ t[2] \in {"x", "X"}

RECURSIVE HexDigits(_)
HexDigits(n) ==
    IF n < 16 THEN <<HexChars[n + 1]>>
    ELSE Append(HexDigits(n \div 16), HexChars[(n % 16) + 1])

\* hexutil.Uint64.MarshalText: "0x" and the digits, no leading zeros
EncodeUint64(n) == <<"0", "x">> \o HexDigits(n)

RECURSIVE HexValue(_)
HexValue(raw) ==
    IF raw = <<>> THEN 0
    ELSE 16 * HexValue(SubSeq(raw, 1, Len(raw) - 1)) + decodeNibble(raw[Len(raw)])

Decoded(v) == [err |-> "nil", val |-> v]

Failed(e, zero) == [err |-> e, val |-> zero]

\* hexutil.Uint64.UnmarshalText
DecodeUint64(t) ==
    IF t = <<>> THEN Decoded(0)
    ELSE IF ~has0xPrefix(t) THEN Failed("ErrMissingPrefix", 0)
    ELSE LET raw == SubSeq(t, 3, Len(t))
         IN IF raw = <<>> THEN Failed("ErrEmptyNumber", 0)
            ELSE IF Len(raw) > 1 /\ raw[1] = "0" THEN Failed("ErrLeadingZero", 0)
            ELSE IF Len(raw) > WordNibbles THEN Failed("ErrUint64Range", 0)
            ELSE IF \E k \in 1 .. Len(raw) : decodeNibble(raw[k]) = badNibble
            THEN Failed("ErrSyntax", 0)
            ELSE Decoded(HexValue(raw))

ZeroAddress == [k \in 1 .. AddressLength |-> 0]

\* common.Address.MarshalText: "0x" and two digits a byte
EncodeAddress(a) ==
    <<"0", "x">> \o [k \in 1 .. 2 * Len(a) |->
                        IF k % 2 = 1 THEN HexChars[(a[(k + 1) \div 2] \div 16) + 1]
                        ELSE HexChars[(a[k \div 2] % 16) + 1]]

\* hexutil.UnmarshalFixedText into an array of AddressLength bytes
DecodeAddress(t) ==
    LET raw == IF t = <<>> THEN <<>> ELSE SubSeq(t, 3, Len(t))
    IN IF t # <<>> /\ ~has0xPrefix(t) THEN Failed("ErrMissingPrefix", ZeroAddress)
       ELSE IF Len(raw) % 2 = 1 THEN Failed("ErrOddLength", ZeroAddress)
       ELSE IF Len(raw) \div 2 # AddressLength THEN Failed("ErrLength", ZeroAddress)
       ELSE IF \E k \in 1 .. Len(raw) : decodeNibble(raw[k]) = badNibble
       THEN Failed("ErrSyntax", ZeroAddress)
       ELSE Decoded([k \in 1 .. AddressLength |->
                        16 * decodeNibble(raw[2 * k - 1]) + decodeNibble(raw[2 * k])])

JAbsent == [kind |-> "absent", text |-> <<>>]

JNull == [kind |-> "null", text |-> <<>>]

JString(t) == [kind |-> "string", text |-> t]

JNumber(t) == [kind |-> "number", text |-> t]

\* json.Unmarshal into a *hexutil.Uint64 member: nil unless the member is there
DecodeUint64Member(j) ==
    IF j.kind \in {"absent", "null"} THEN [set |-> FALSE, err |-> "nil", val |-> 0]
    ELSE IF j.kind # "string" THEN [set |-> FALSE, err |-> "ErrNonString", val |-> 0]
    ELSE LET d == DecodeUint64(j.text)
         IN [set |-> d.err = "nil", err |-> d.err, val |-> d.val]

\* json.Unmarshal into a *common.Address member
DecodeAddressMember(j) ==
    IF j.kind \in {"absent", "null"}
    THEN [set |-> FALSE, err |-> "nil", val |-> ZeroAddress]
    ELSE IF j.kind # "string"
    THEN [set |-> FALSE, err |-> "ErrNonString", val |-> ZeroAddress]
    ELSE LET d == DecodeAddress(j.text)
         IN [set |-> d.err = "nil", err |-> d.err, val |-> d.val]

ZeroWithdrawal == [Index |-> 0, Validator |-> 0, Address |-> ZeroAddress, Amount |-> 0]

EncFields_swapped(v) ==
    [Index |-> v.Index, Validator |-> v.Amount, Address |-> v.Address,
     Amount |-> v.Validator]

\* enc.Index = hexutil.Uint64(w.Index); ... ; enc.Amount = hexutil.Uint64(w.Amount)
EncFields(v) ==
    [Index |-> v.Index, Validator |-> v.Validator, Address |-> v.Address,
     Amount |-> v.Amount]

\* func (w Withdrawal) MarshalJSON: json.Marshal(&enc) writes the four members
MarshalJSON(v) ==
    LET enc == EncFields(v)
    IN [index |-> JString(EncodeUint64(enc.Index)),
        validatorIndex |-> JString(EncodeUint64(enc.Validator)),
        address |-> JString(EncodeAddress(enc.Address)),
        amount |-> JString(EncodeUint64(enc.Amount))]

SetField_always(isSet, old, new) == new

\* if dec.X != nil { w.X = *dec.X }
SetField(isSet, old, new) == IF isSet THEN new ELSE old

\* func (w *Withdrawal) UnmarshalJSON: the target behind the call and the error
UnmarshalJSON(target, j) ==
    LET decIndex     == DecodeUint64Member(j.index)
        decValidator == DecodeUint64Member(j.validatorIndex)
        decAddress   == DecodeAddressMember(j.address)
        decAmount    == DecodeUint64Member(j.amount)
        err == IF decIndex.err # "nil" THEN decIndex.err
               ELSE IF decValidator.err # "nil" THEN decValidator.err
               ELSE IF decAddress.err # "nil" THEN decAddress.err
               ELSE decAmount.err
    IN IF err # "nil"
       THEN [w |-> target, err |-> err]
       ELSE [w |-> [Index |-> SetField(decIndex.set, target.Index, decIndex.val),
                    Validator |-> SetField(decValidator.set, target.Validator,
                                           decValidator.val),
                    Address |-> SetField(decAddress.set, target.Address,
                                         decAddress.val),
                    Amount |-> SetField(decAmount.set, target.Amount,
                                        decAmount.val)],
             err |-> "nil"]

\* the values and payloads of the scenarios
MaxUint64 == UintMod - 1

CountingAddress == [k \in 1 .. AddressLength |-> k]

HighAddress == [k \in 1 .. AddressLength |-> 255 - 16 * (k % 2)]

Addresses == {ZeroAddress, CountingAddress, HighAddress}

Withdrawals == [Index : {0, 1, MaxUint64}, Validator : {0, 2, 16},
                Address : Addresses, Amount : {0, 5, 171, MaxUint64}]

UsedWithdrawal == [Index |-> 9, Validator |-> 8, Address |-> HighAddress, Amount |-> 7]

Targets == {ZeroWithdrawal, UsedWithdrawal}

UpperCase(t) == [k \in 1 .. Len(t) |->
                    IF k > 2 /\ decodeNibble(t[k]) # badNibble
                    THEN UpperHexChars[decodeNibble(t[k]) + 1] ELSE t[k]]

Payloads ==
    [index : {JAbsent, JString(<<"0", "x", "1">>), JString(<<"0", "x", "z">>),
              JNumber(<<"1">>)},
     validatorIndex : {JAbsent, JNull, JString(<<"0", "x", "2">>),
                       JString(<<"0", "x", "0", "2">>), JString(<<>>)},
     address : {JAbsent, JNull, JString(EncodeAddress(CountingAddress)),
                JString(UpperCase(EncodeAddress(HighAddress))),
                JString(SubSeq(EncodeAddress(HighAddress), 1, 2 * AddressLength)),
                JString(SubSeq(EncodeAddress(HighAddress), 3, 2 * AddressLength + 2))},
     amount : {JAbsent, JString(<<"0", "x", "5">>), JString(EncodeUint64(MaxUint64)),
               JString(Append(EncodeUint64(MaxUint64), "0")), JString(<<"5">>),
               JString(<<"0", "x">>)}]

NoPayload == [index |-> JAbsent, validatorIndex |-> JAbsent, address |-> JAbsent,
              amount |-> JAbsent]

CodecIdle ==
    /\ cpc = "idle"
    /\ orig = ZeroWithdrawal
    /\ input = NoPayload
    /\ before = ZeroWithdrawal
    /\ w = ZeroWithdrawal
    /\ cerr = "nil"

-----------------------------------------------------------------------------
(* Concurrent calls on one fetcher: the goroutines that run a call each.   *)
Procs == {"a", "b"}

\* the locals of a goroutine that runs no call
IdleCall == [pc |-> "idle", op |-> "none", idRange |-> NoRange,
             upstream |-> NoUpstream, page |-> 0, i |-> 0, results |-> <<>>,
             allEntities |-> <<>>, calls |-> <<>>, ret |-> NoRet]

-----------------------------------------------------------------------------
Init ==
    /\ hasPageFn \in BOOLEAN
    /\ pc = "idle"
    /\ op = "none"
    /\ idRange = NoRange
    /\ upstream = NoUpstream
    /\ page = 0
    /\ entities = <<>>
    /\ i = 0
    /\ results = <<>>
    /\ allEntities = <<>>
    /\ ticker = NoTicker
    /\ log = <<>>
    /\ calls = <<>>
    /\ ret = NoRet
    /\ ctx = CallerCtx
    /\ CodecIdle
    /\ procs = [p \in Procs |-> IdleCall]
    /\ cells = [p \in Procs |-> <<>>]
    /\ timers = [p \in Procs |-> NoTicker]

-----------------------------------------------------------------------------
(* FetchLastEntityId                                                       *)
LastIds == {-2, -1, 0, 1, 7, UintMod \div 2 - 1, -(UintMod \div 2)}

LastIdResult_swallow(id, err) ==
    [kind |-> "ok", val |-> <<>>, id |-> uint64(id), err |-> "nil"]

\* return uint64(id), err
LastIdResult(id, err) ==
    [kind |-> IF err = "nil" THEN "ok" ELSE "err", val |-> <<>>,
     id |-> uint64(id), err |-> err]

FetchLastEntityId ==
    /\ UNCHANGED <<cvars, kvars>>
    /\ pc = "idle"
    /\ \E id \in LastIds, err \in Answers(PassCtx(ctx)) :
          /\ calls' = Append(calls, Call(PassCtx(ctx), "fetchLastEntityId", 0, 0,
                                         err, <<>>, id))
          /\ ret' = LastIdResult(id, err)
    /\ op' = "FetchLastEntityId"
    /\ pc' = "done"
    /\ UNCHANGED <<hasPageFn, ctx, idRange, upstream, page, entities, i, results,
                   allEntities, ticker, log>>

-----------------------------------------------------------------------------
(* FetchEntitiesRange: the choice of strategy                              *)
UseBulk_noNilCheck(count, pageFn) == count > batchFetchThreshold

UseBulk_atThreshold(count, pageFn) == (count >= batchFetchThreshold) /\ pageFn

\* (count > batchFetchThreshold) && (f.fetchEntitiesPage != nil)
UseBulk(count, pageFn) == (count > batchFetchThreshold) /\ pageFn

\* entry of FetchAllEntities: var entities; NewTicker; page := 1
EnterFetchAllEntities ==
    /\ pc' = "page_fetch"
    /\ page' = 1
    /\ entities' = <<>>
    /\ ticker' = [state |-> "running", pending |-> FALSE]
    /\ UNCHANGED <<i, results>>

\* entry of FetchEntitiesRangeSequentially: ClosedRangeMap starts at r.Start
EnterSequentially(r) ==
    /\ pc' = "seq_loop"
    /\ i' = r.Start
    /\ results' = <<>>
    /\ UNCHANGED <<page, entities, ticker>>

FetchEntitiesRange ==
    /\ UNCHANGED <<cvars, kvars>>
    /\ pc = "idle"
    /\ \E r \in Ranges :
          /\ idRange' = r
          /\ IF UseBulk(RangeLen(r), hasPageFn)
             THEN EnterFetchAllEntities
             ELSE EnterSequentially(r)
    /\ op' = "FetchEntitiesRange"
    /\ UNCHANGED <<hasPageFn, ctx, upstream, allEntities, log, calls, ret>>

\* FetchEntitiesRangeSequentially(ctx, r) for some r of rs
CallSequentially(rs) ==
    /\ UNCHANGED <<cvars, kvars>>
    /\ pc = "idle"
    /\ \E r \in rs :
          /\ idRange' = r
          /\ EnterSequentially(r)
    /\ op' = "FetchEntitiesRangeSequentially"
    /\ UNCHANGED <<hasPageFn, ctx, upstream, allEntities, log, calls, ret>>

FetchEntitiesRangeSequentially == CallSequentially(Ranges)

FetchAllEntities ==
    /\ UNCHANGED <<cvars, kvars>>
    /\ pc = "idle"
    /\ EnterFetchAllEntities
    /\ op' = "FetchAllEntities"
    /\ UNCHANGED <<hasPageFn, ctx, idRange, upstream, allEntities, log, calls, ret>>

-----------------------------------------------------------------------------
(* FetchEntitiesRangeSequentially: one iteration of ClosedRangeMap         *)
\* the collaborator's answer to fetchEntity(ctx, id)
RemoteEntity(id) == Entity(id)

SeqArg_skip(id) == int64(id + 1)

\* f.fetchEntity(ctx, int64(id))
SeqArg(id) == int64(id)

\* i++
SeqNext(id) == uint64(id + 1)

\* i <= r.End
SeqContinues(id, r) == id <= r.End

SeqStep ==
    /\ UNCHANGED <<cvars, kvars>>
    /\ pc = "seq_loop"
    /\ \E err \in Answers(PassCtx(ctx)) :
          LET arg    == SeqArg(i)
              entity == RemoteEntity(arg)
              out    == IF err = "nil" THEN <<entity>> ELSE <<>>
          IN /\ calls' = Append(calls, Call(PassCtx(ctx), "fetchEntity", arg, 0,
                                            err, out, 0))
             /\ IF err # "nil"
                THEN /\ ret' = RetErr(results, err)
                     /\ pc' = "done"
                     /\ UNCHANGED <<i, results>>
                ELSE /\ results' = Append(results, entity)
                     /\ i' = SeqNext(i)
                     /\ IF SeqContinues(SeqNext(i), idRange)
                        THEN /\ pc' = "seq_loop"
                             /\ ret' = ret
                        ELSE /\ pc' = "done"
                             /\ ret' = RetOk(Append(results, entity))
    /\ UNCHANGED <<hasPageFn, ctx, op, idRange, upstream, page, entities, allEntities,
                   ticker, log>>

-----------------------------------------------------------------------------
(* FetchAllEntities: the pagination loop                                   *)
ZeroEntity == [id |-> 0, start |-> 0]

startIndex_noOffset(r) == uint64(r.Start)

\* startIndex := idRange.Start - 1
startIndex(r) == uint64(r.Start - 1)

SliceExpr_clamped(s, cp, lo, hi) ==
    RetOk([k \in 1 .. (Min(hi, Len(s)) - Min(lo, Len(s))) |-> s[Min(lo, Len(s)) + k]])

\* s[lo:hi] on a slice of capacity cp: a run-time panic unless lo <= hi <= cp;
\* positions past len(s) hold zero values
SliceExpr(s, cp, lo, hi) ==
    IF lo <= hi /\ hi <= cp
    THEN RetOk([k \in 1 .. (hi - lo) |->
                   IF lo + k <= Len(s) THEN s[lo + k] ELSE ZeroEntity])
    ELSE RetPanic

\* allEntities[startIndex : startIndex+count]
BulkSlice(all, cp, r) ==
    SliceExpr(all, cp, startIndex(r), uint64(startIndex(r) + RangeLen(r)))

\* capacities append may have left the accumulator with
Capacities(s) == IF Len(s) = 0 THEN {0} ELSE Len(s) .. (Len(s) + MaxSlack)

LoopEnds_short(entitiesPage, limit) == Len(entitiesPage) < limit

\* if len(entitiesPage) == 0 { break }
LoopEnds(entitiesPage, limit) == Len(entitiesPage) = 0

\* for _, entity := range entitiesPage { entities = append(entities, entity) }
Accumulate(acc, entitiesPage) == acc \o entitiesPage

NextPage_skip(p) == uint64(p + 2)

\* page++
NextPage(p) == uint64(p + 1)

DoneLog(sorted) == [msg |-> "done", page |-> 0, len |-> Len(sorted)]

ProgressLog_stale(p, acc) == [msg |-> "progress", page |-> p - 1, len |-> Len(acc)]

\* "page", page, "len", len(entities)
ProgressLog(p, acc) == [msg |-> "progress", page |-> p, len |-> Len(acc)]

StoppedTicker == [state |-> "stopped", pending |-> ticker.pending]

\* FetchAllEntities returned r to whoever called it
ReturnFromFetchAll(r, sorted, cp) ==
    /\ pc' = "done"
    /\ ticker' = StoppedTicker
    /\ IF op = "FetchEntitiesRange"
       THEN IF r.kind = "ok"
            THEN /\ allEntities' = sorted
                 /\ ret' = BulkSlice(sorted, cp, idRange)
            ELSE /\ allEntities' = allEntities
                 /\ ret' = r
       ELSE /\ allEntities' = allEntities
            /\ ret' = r

FetchPageStep ==
    /\ UNCHANGED <<cvars, kvars>>
    /\ pc = "page_fetch"
    /\ IF ~hasPageFn
       THEN \* calling the nil func value panics
            /\ ReturnFromFetchAll(RetPanic, <<>>, 0)
            /\ UNCHANGED <<upstream, entities, log, calls>>
       ELSE \E u \in (IF page = 1 THEN Upstreams ELSE {upstream}),
               err \in Answers(PassCtx(ctx)) :
          LET entitiesPage == IF err = "nil" THEN RemotePage(u, page, pageLimit)
                              ELSE <<>>
          IN /\ u.order = "endless" => page <= MaxPages
             /\ upstream' = u
             /\ calls' = Append(calls, Call(PassCtx(ctx), "fetchEntitiesPage", page,
                                            pageLimit, err, entitiesPage, 0))
             /\ IF err # "nil"
                THEN /\ ReturnFromFetchAll(RetErr(entities, err), <<>>, 0)
                     /\ UNCHANGED <<entities, log>>
                ELSE IF LoopEnds(entitiesPage, pageLimit)
                THEN \E sorted \in SortOutcomes(entities), cp \in Capacities(entities) :
                        /\ entities' = sorted
                        /\ log' = Append(log, DoneLog(sorted))
                        /\ ReturnFromFetchAll(RetOk(sorted), sorted, cp)
                ELSE /\ entities' = Accumulate(entities, entitiesPage)
                     /\ pc' = "select"
                     /\ UNCHANGED <<allEntities, ticker, log, ret>>
    /\ UNCHANGED <<hasPageFn, ctx, op, idRange, page, i, results>>

\* select { case <-progressLogTicker.C: log; default: } then page++
ProgressCheck ==
    /\ UNCHANGED <<cvars, kvars>>
    /\ pc = "select"
    /\ IF ticker.pending
       THEN /\ log' = Append(log, ProgressLog(page, entities))
            /\ ticker' = [ticker EXCEPT !.pending = FALSE]
       ELSE UNCHANGED <<log, ticker>>
    /\ page' = NextPage(page)
    /\ pc' = "page_fetch"
    /\ UNCHANGED <<hasPageFn, ctx, op, idRange, upstream, entities, i, results,
                   allEntities, calls, ret>>

\* the runtime delivers a tick into the ticker's one-slot channel
Tick ==
    /\ UNCHANGED <<cvars, kvars>>
    /\ ticker.state = "running"
    /\ ~ticker.pending
    /\ ticker' = [ticker EXCEPT !.pending = TRUE]
    /\ UNCHANGED <<hasPageFn, ctx, pc, op, idRange, upstream, page, entities, i,
                   results, allEntities, log, calls, ret>>

\* the caller has its answer; the fetcher keeps nothing of the call
Return ==
    /\ UNCHANGED <<cvars, kvars>>
    /\ pc = "done"
    /\ pc' = "idle"
    /\ op' = "none"
    /\ idRange' = NoRange
    /\ upstream' = NoUpstream
    /\ page' = 0
    /\ entities' = <<>>
    /\ i' = 0
    /\ results' = <<>>
    /\ allEntities' = <<>>
    /\ ticker' = NoTicker
    /\ log' = <<>>
    /\ calls' = <<>>
    /\ ret' = NoRet
    /\ ctx' = CallerCtx
    /\ UNCHANGED hasPageFn

Next ==
    \/ FetchLastEntityId
    \/ FetchEntitiesRange
    \/ FetchEntitiesRangeSequentially
    \/ FetchAllEntities
    \/ SeqStep
    \/ FetchPageStep
    \/ ProgressCheck
    \/ Tick
    \/ Return

Spec == Init /\ [][Next]_vars

\* the caller cancels the context, before the call or while it runs
Cancel ==
    /\ UNCHANGED <<cvars, kvars>>
    /\ pc # "done"
    /\ ~ctx.cancelled
    /\ ctx' = [ctx EXCEPT !.cancelled = TRUE]
    /\ UNCHANGED <<hasPageFn, pc, op, idRange, upstream, page, entities, i,
                   results, allEntities, ticker, log, calls, ret>>

CancelRanges == {ClosedRange(s, s + n - 1) : s \in 1 .. MaxStart, n \in 1 .. MaxShort + 1}

FetchFewSequentially == CallSequentially(CancelRanges)

\* both loops, with a caller that may cancel
NextCancel ==
    \/ Cancel
    \/ FetchLastEntityId
    \/ FetchFewSequentially
    \/ FetchAllEntities
    \/ SeqStep
    \/ FetchPageStep
    \/ ProgressCheck
    \/ Tick
    \/ Return

SpecCancel == Init /\ [][NextCancel]_vars

\* ranges of ids at both ends of the signed and of the unsigned numbers
WideRanges ==
    {ClosedRange(s, s + n - 1) :
        s \in {1, UintMod \div 2 - 2, UintMod \div 2 - 1, UintMod \div 2,
               UintMod - MaxShort - 3},
        n \in 1 .. MaxShort + 1}

FetchWideSequentially == CallSequentially(WideRanges)

\* the two conversions between signed and unsigned ids
NextWide ==
    \/ FetchLastEntityId
    \/ FetchWideSequentially
    \/ SeqStep
    \/ Return

SpecWide == Init /\ [][NextWide]_vars

\* FetchAllEntities alone, every collaborator call returning and the
\* goroutine of the call being scheduled
NextPaging ==
    \/ FetchAllEntities
    \/ FetchPageStep
    \/ ProgressCheck
    \/ Tick
    \/ Return

SpecPaging ==
    /\ Init
    /\ [][NextPaging]_vars
    /\ WF_vars(FetchPageStep)
    /\ WF_vars(ProgressCheck)

-----------------------------------------------------------------------------
(* Two goroutines call the methods of one fetcher concurrently.  A step is *)
(* one step of one call; the steps of the calls interleave freely.  Each   *)
(* collaborator call is answered by the environment on its own.  What the  *)
(* calls write to the logger is output and is not kept.                    *)
\* short ranges and, for a fetcher that can page, one above the threshold
ConcRanges == {ClosedRange(s, s + n - 1) : s \in {1, MaxStart}, n \in 1 .. MaxShort}
              \cup (IF hasPageFn THEN {ClosedRange(1, batchFetchThreshold + 1)} ELSE {})

\* short listings served one entity a page, in order or rotated
ConcUpstreams ==
    {[n |-> n, order |-> o, extra |-> "none", pageSize |-> 1] :
        n \in 0 .. MaxSmall, o \in {"asc", "rot"}} \ {[n |-> n, order |-> "rot", extra |-> "none", pageSize |-> 1] : n \in 0 .. 1}

\* a collaborator call succeeds or fails
ConcAnswers == {"nil", "ErrTimeout"}

ConcLastIds == {-1, 1}

EntitiesCell_field(p) == "a"

\* var entities []TEntity: a local of the invocation
EntitiesCell(p) == p

TickerCell_shared(p) == "a"

\* progressLogTicker := time.NewTicker(...): a local of the invocation
TickerCell(p) == p

ConcFetchLastEntityId(p) ==
    /\ procs[p].pc = "idle"
    /\ \E id \in ConcLastIds, err \in ConcAnswers :
          procs' = [procs EXCEPT ![p] =
                       [@ EXCEPT !.pc = "done",
                                 !.op = "FetchLastEntityId",
                                 !.calls = <<Call(PassCtx(CallerCtx), "fetchLastEntityId",
                                                  0, 0, err, <<>>, id)>>,
                                 !.ret = LastIdResult(id, err)]]
    /\ UNCHANGED <<cells, timers>>

\* entry of FetchAllEntities in goroutine p, called as operation o with range r
ConcEnterFetchAll(p, o, r) ==
    /\ procs' = [procs EXCEPT ![p] =
                    [@ EXCEPT !.pc = "page_fetch", !.op = o, !.idRange = r, !.page = 1]]
    /\ cells' = [cells EXCEPT ![EntitiesCell(p)] = <<>>]
    /\ timers' = [timers EXCEPT ![TickerCell(p)] =
                      [state |-> "running", pending |-> FALSE]]

ConcEnterSequentially(p, o, r) ==
    /\ procs' = [procs EXCEPT ![p] =
                    [@ EXCEPT !.pc = "seq_loop", !.op = o, !.idRange = r,
                              !.i = r.Start, !.results = <<>>]]
    /\ UNCHANGED <<cells, timers>>

ConcFetchEntitiesRange(p) ==
    /\ procs[p].pc = "idle"
    /\ \E r \in ConcRanges :
          IF UseBulk(RangeLen(r), hasPageFn)
          THEN ConcEnterFetchAll(p, "FetchEntitiesRange", r)
          ELSE ConcEnterSequentially(p, "FetchEntitiesRange", r)

ConcFetchEntitiesRangeSequentially(p) ==
    /\ procs[p].pc = "idle"
    /\ \E r \in {x \in ConcRanges : RangeLen(x) <= MaxShort} :
          ConcEnterSequentially(p, "FetchEntitiesRangeSequentially", r)

ConcFetchAllEntities(p) ==
    /\ procs[p].pc = "idle"
    /\ ConcEnterFetchAll(p, "FetchAllEntities", NoRange)

ConcSeqStep(p) ==
    LET l == procs[p]
    IN /\ l.pc = "seq_loop"
       /\ \E err \in ConcAnswers :
             LET arg    == SeqArg(l.i)
                 entity == RemoteEntity(arg)
                 out    == IF err = "nil" THEN <<entity>> ELSE <<>>
                 cs     == Append(l.calls, Call(PassCtx(CallerCtx), "fetchEntity",
                                                arg, 0, err, out, 0))
             IN procs' = [procs EXCEPT ![p] =
                   IF err # "nil"
                   THEN [l EXCEPT !.calls = cs, !.pc = "done",
                                  !.ret = RetErr(l.results, err)]
                   ELSE IF SeqContinues(SeqNext(l.i), l.idRange)
                   THEN [l EXCEPT !.calls = cs, !.i = SeqNext(l.i),
                                  !.results = Append(l.results, entity)]
                   ELSE [l EXCEPT !.calls = cs, !.i = SeqNext(l.i),
                                  !.results = Append(l.results, entity),
                                  !.pc = "done",
                                  !.ret = RetOk(Append(l.results, entity))]]
       /\ UNCHANGED <<cells, timers>>

\* FetchAllEntities of goroutine p returned r; defer progressLogTicker.Stop()
ConcReturnFromFetchAll(p, l, r, sorted, cp) ==
    /\ timers' = [timers EXCEPT ![TickerCell(p)] =
                      [state |-> "stopped", pending |-> @.pending]]
    /\ procs' = [procs EXCEPT ![p] =
          IF l.op = "FetchEntitiesRange" /\ r.kind = "ok"
          THEN [l EXCEPT !.pc = "done", !.allEntities = sorted,
                         !.ret = BulkSlice(sorted, cp, l.idRange)]
          ELSE [l EXCEPT !.pc = "done", !.ret = r]]

ConcPageStep(p) ==
    LET l   == procs[p]
        acc == cells[EntitiesCell(p)]
    IN /\ l.pc = "page_fetch"
       /\ IF ~hasPageFn
          THEN /\ ConcReturnFromFetchAll(p, l, RetPanic, <<>>, 0)
               /\ UNCHANGED cells
          ELSE \E u \in (IF l.page = 1 THEN ConcUpstreams ELSE {l.upstream}),
                  err \in ConcAnswers :
             LET entitiesPage == IF err = "nil" THEN RemotePage(u, l.page, pageLimit)
                                 ELSE <<>>
                 cs == Append(l.calls, Call(PassCtx(CallerCtx), "fetchEntitiesPage",
                                            l.page, pageLimit, err, entitiesPage, 0))
                 l1 == [l EXCEPT !.upstream = u, !.calls = cs]
             IN IF err # "nil"
                THEN /\ ConcReturnFromFetchAll(p, l1, RetErr(acc, err), <<>>, 0)
                     /\ UNCHANGED cells
                ELSE IF LoopEnds(entitiesPage, pageLimit)
                THEN \E sorted \in SortOutcomes(acc), cp \in Capacities(acc) :
                        /\ cells' = [cells EXCEPT ![EntitiesCell(p)] = sorted]
                        /\ ConcReturnFromFetchAll(p, l1, RetOk(sorted), sorted, cp)
                ELSE /\ cells' = [cells EXCEPT ![EntitiesCell(p)] =
                                      Accumulate(acc, entitiesPage)]
                     /\ procs' = [procs EXCEPT ![p] = [l1 EXCEPT !.pc = "select"]]
                     /\ UNCHANGED timers

ConcProgressCheck(p) ==
    LET l == procs[p]
        t == timers[TickerCell(p)]
    IN /\ l.pc = "select"
       /\ procs' = [procs EXCEPT ![p] =
             [l EXCEPT !.pc = "page_fetch", !.page = NextPage(l.page)]]
       /\ timers' = [timers EXCEPT ![TickerCell(p)] = [t EXCEPT !.pending = FALSE]]
       /\ UNCHANGED cells

ConcTick(p) ==
    /\ timers[p].state = "running"
    /\ ~timers[p].pending
    /\ timers' = [timers EXCEPT ![p] = [@ EXCEPT !.pending = TRUE]]
    /\ UNCHANGED <<procs, cells>>

\* the caller of goroutine p has its answer; the locals of the call are gone
ConcReturn(p) ==
    /\ procs[p].pc = "done"
    /\ procs' = [procs EXCEPT ![p] = IdleCall]
    /\ cells' = [cells EXCEPT ![p] = <<>>]
    /\ timers' = [timers EXCEPT ![p] = NoTicker]

CallFetchLastEntityId ==
    UNCHANGED <<fvars, cvars>> /\ \E p \in Procs : ConcFetchLastEntityId(p)

CallFetchEntitiesRange ==
    UNCHANGED <<fvars, cvars>> /\ \E p \in Procs : ConcFetchEntitiesRange(p)

CallFetchEntitiesRangeSequentially ==
    UNCHANGED <<fvars, cvars>> /\ \E p \in Procs : ConcFetchEntitiesRangeSequentially(p)

CallFetchAllEntities ==
    UNCHANGED <<fvars, cvars>> /\ \E p \in Procs : ConcFetchAllEntities(p)

StepSequential ==
    UNCHANGED <<fvars, cvars>> /\ \E p \in Procs : ConcSeqStep(p)

StepPage ==
    UNCHANGED <<fvars, cvars>> /\ \E p \in Procs : ConcPageStep(p)

StepProgressCheck ==
    UNCHANGED <<fvars, cvars>> /\ \E p \in Procs : ConcProgressCheck(p)

StepTick ==
    UNCHANGED <<fvars, cvars>> /\ \E p \in Procs : ConcTick(p)

StepReturn ==
    UNCHANGED <<fvars, cvars>> /\ \E p \in Procs : ConcReturn(p)

NextConc ==
    \/ CallFetchLastEntityId
    \/ CallFetchEntitiesRange
    \/ CallFetchEntitiesRangeSequentially
    \/ CallFetchAllEntities
    \/ StepSequential
    \/ StepPage
    \/ StepProgressCheck
    \/ StepTick
    \/ StepReturn

SpecConc == Init /\ [][NextConc]_vars

-----------------------------------------------------------------------------
(* The codec scenarios: a value is encoded, and a payload (the encoding, or *)
(* one with members missing or malformed) is decoded into a target.         *)
Marshal ==
    /\ cpc = "idle"
    /\ \E v \in Withdrawals :
          /\ orig' = v
          /\ input' = MarshalJSON(v)
    /\ cpc' = "marshalled"
    /\ UNCHANGED <<before, w, cerr>>
    /\ UNCHANGED <<fvars, kvars>>

Unmarshal ==
    /\ cpc \in {"idle", "marshalled"}
    /\ \E target \in Targets,
          j \in (IF cpc = "marshalled" THEN {input} ELSE Payloads) :
          LET r == UnmarshalJSON(target, j)
          IN /\ input' = j
             /\ before' = target
             /\ w' = r.w
             /\ cerr' = r.err
    /\ cpc' = IF cpc = "marshalled" THEN "roundtrip" ELSE "decoded"
    /\ UNCHANGED orig
    /\ UNCHANGED <<fvars, kvars>>

CodecReset ==
    /\ cpc \in {"roundtrip", "decoded"}
    /\ cpc' = "idle"
    /\ orig' = ZeroWithdrawal
    /\ input' = NoPayload
    /\ before' = ZeroWithdrawal
    /\ w' = ZeroWithdrawal
    /\ cerr' = "nil"
    /\ UNCHANGED <<fvars, kvars>>

NextCodec ==
    \/ Marshal
    \/ Unmarshal
    \/ CodecReset

SpecCodec == Init /\ [][NextCodec]_vars

-----------------------------------------------------------------------------
(* Vocabulary of the properties.                                           *)
Finished == pc = "done"

AllCallsSucceeded == \A k \in 1 .. Len(calls) : calls[k].err = "nil"

LastCall == calls[Len(calls)]

\* the call ran (or runs) the pagination loop
InBulk == \/ op = "FetchAllEntities"
          \/ op = "FetchEntitiesRange" /\ RangeLen(idRange) > 100 /\ hasPageFn

\* every entity the pages of this call delivered, in order of delivery
RECURSIVE Delivered(_)
Delivered(cs) ==
    IF cs = <<>> THEN <<>>
    ELSE (IF Head(cs).fn = "fetchEntitiesPage" THEN Head(cs).ents ELSE <<>>)
         \o Delivered(Tail(cs))

SeqBag(s) == [x \in {s[k] : k \in 1 .. Len(s)} |->
                 Cardinality({k \in 1 .. Len(s) : s[k] = x})]

AscendingByStart(s) == \A k \in 1 .. Len(s) - 1 : s[k].start <= s[k + 1].start

\* s is the delivered collection, fully sorted
SortedCollection(s) ==
    /\ AscendingByStart(s)
    /\ SeqBag(s) = SeqBag(Delivered(calls))

\* d holds the ids 1 .. Len(d), each of them once, and each entity is the one
\* fetchEntity returns for its id
DenseCollection(d) ==
    /\ {d[k].id : k \in 1 .. Len(d)} = 1 .. Len(d)
    /\ \A k \in 1 .. Len(d) : d[k] = RemoteEntity(d[k].id)

\* what the sequential strategy returns for r when no call fails
SequentialResult(r) ==
    [k \in 1 .. RangeLen(r) |-> RemoteEntity(SeqArg(uint64(r.Start + k - 1)))]

\* the calls so far are fetchEntity calls for Start, Start+1, ... in this order
AscendingIdCalls ==
    \A k \in 1 .. Len(calls) :
        /\ calls[k].fn = "fetchEntity"
        /\ calls[k].arg = idRange.Start + k - 1

-----------------------------------------------------------------------------
\* C1: a range of at most 100 ids, every fetchEntity succeeding: FetchEntitiesRange
\* calls fetchEntity exactly Len(R) times, for Start, Start+1, ..., End in this
\* order, and returns the Len(R) entities in the order of the calls.
C1_SequentialUpToThreshold ==
    (op = "FetchEntitiesRange" /\ RangeLen(idRange) <= 100 /\ AllCallsSucceeded)
    => /\ AscendingIdCalls
       /\ Len(calls) <= RangeLen(idRange)
       /\ Finished =>
             /\ Len(calls) = RangeLen(idRange)
             /\ LastCall.arg = idRange.End
             /\ ret.kind = "ok"
             /\ Len(ret.val) = RangeLen(idRange)
             /\ \A k \in 1 .. Len(ret.val) : ret.val[k] = calls[k].ents[1]

C1_Witness ==
    /\ Finished /\ op = "FetchEntitiesRange" /\ hasPageFn
    /\ RangeLen(idRange) = 100 /\ idRange.Start = 2
    /\ ret.kind = "ok" /\ Len(ret.val) = 100
    /\ ret.val[100] = Entity(101)

\* C2 as stated: a range of more than 100 ids, the page collaborator configured
\* and all its pages succeeding: the result is the sorted collection's
\* sub-sequence at zero-based offset Start-1 of length Len(R).
C2_AsStated ==
    (Finished /\ op = "FetchEntitiesRange" /\ RangeLen(idRange) > 100
       /\ idRange.Start >= 1 /\ hasPageFn /\ AllCallsSucceeded)
    => /\ ret.kind = "ok"
       /\ idRange.End <= Len(allEntities)
       /\ ret.val = SubSeq(allEntities, idRange.Start, idRange.End)

\* C2 amended: the same, for the ranges with Start >= 1 and End within the
\* collection; for any other range of more than 100 ids the call panics, or
\* returns zero values for the positions behind the end of the collection.
C2_BulkSliceWithinCollection ==
    (Finished /\ op = "FetchEntitiesRange" /\ RangeLen(idRange) > 100
       /\ hasPageFn /\ AllCallsSucceeded)
    => /\ SortedCollection(allEntities)
       /\ IF idRange.Start >= 1 /\ idRange.End <= Len(allEntities)
          THEN /\ ret.kind = "ok"
               /\ Len(ret.val) = RangeLen(idRange)
               /\ ret.val = SubSeq(allEntities, idRange.Start, idRange.End)
          ELSE \/ ret.kind = "panic"
               \/ /\ ret.kind = "ok"
                  /\ ret.val[Len(ret.val)] = ZeroEntity

C2_Witness ==
    /\ Finished /\ op = "FetchEntitiesRange" /\ hasPageFn /\ AllCallsSucceeded
    /\ idRange = ClosedRange(2, 102)
    /\ upstream.order = "rot" /\ upstream.n = 102 /\ Len(calls) = 3
    /\ ret.kind = "ok" /\ Len(ret.val) = 101
    /\ ret.val[1] = Entity(2) /\ ret.val[101] = Entity(102)

\* C3: once fetchEntitiesPage has returned an empty page the call issues no
\* further page request (it is over), and the loop ends only behind an empty
\* page or a failed one, never behind a non-empty page.
C3_StopsExactlyAtFirstEmptyPage ==
    /\ \A k \in 1 .. Len(calls) :
          (calls[k].fn = "fetchEntitiesPage" /\ calls[k].err = "nil"
             /\ calls[k].ents = <<>>)
          => (k = Len(calls) /\ Finished)
    /\ (Finished /\ InBulk /\ calls # <<>>)
       => (LastCall.err # "nil" \/ LastCall.ents = <<>>)
    /\ (InBulk /\ ~Finished) => AllCallsSucceeded

C3_Witness ==
    /\ Finished /\ op = "FetchAllEntities" /\ ret.kind = "ok"
    /\ Len(calls) = 3
    /\ calls[1].ents # <<>> /\ calls[2].ents # <<>> /\ calls[3].ents = <<>>
    /\ calls[3].err = "nil"

\* C4: what FetchAllEntities returns on success is ascending by
\* BlockNumRange().Start and holds exactly the entities of the pages it was
\* given, each as often as it was delivered.
C4_SortedUnionOfPages ==
    (Finished /\ op = "FetchAllEntities" /\ ret.kind = "ok")
    => SortedCollection(ret.val)

C4_Witness ==
    /\ Finished /\ op = "FetchAllEntities" /\ ret.kind = "ok"
    /\ upstream.order = "rot" /\ upstream.extra = "twin" /\ Len(calls) = 3
    /\ Len(ret.val) > 100
    /\ ret.val[1] = Twin(upstream.n + 1) /\ ret.val[2] = Entity(1)

\* C5: when the request for page k fails, the call is over with exactly that
\* error and a nil result, page k is the last page requested, and nothing of
\* pages 1..k-1 is returned; FetchEntitiesRange hands the same error on.
C5_PageFailureAborts ==
    \A k \in 1 .. Len(calls) :
        (calls[k].fn = "fetchEntitiesPage" /\ calls[k].err # "nil")
        => /\ k = Len(calls)
           /\ Finished
           /\ ret.kind = "err"
           /\ ret.err = calls[k].err
           /\ ret.val = <<>>

C5_Witness ==
    /\ Finished /\ op = "FetchEntitiesRange"
    /\ Len(calls) = 2 /\ calls[1].err = "nil" /\ Len(calls[1].ents) = 60
    /\ calls[2].err = "ErrTimeout"
    /\ Len(entities) = 60
    /\ ret.kind = "err" /\ ret.err = "ErrTimeout"

\* C6: in the per-id loop, when the call for id j is the first to fail, the
\* operation is over with that error and no partial result, and the ids
\* requested are exactly Start .. j in ascending order, j last and once.
C6_FirstFailingIdAborts ==
    \A k \in 1 .. Len(calls) :
        (calls[k].fn = "fetchEntity" /\ calls[k].err # "nil")
        => /\ k = Len(calls)
           /\ Finished
           /\ ret.kind = "err"
           /\ ret.err = calls[k].err
           /\ ret.val = <<>>
           /\ AscendingIdCalls
           /\ calls[k].arg <= idRange.End
           /\ \A m \in 1 .. k - 1 : calls[m].err = "nil"

C6_Witness ==
    /\ Finished /\ op = "FetchEntitiesRangeSequentially"
    /\ idRange = ClosedRange(1, 101)
    /\ Len(calls) = 50 /\ calls[50].arg = 50 /\ calls[50].err = "ErrNotFound"
    /\ Len(results) = 49
    /\ ret.kind = "err" /\ ret.err = "ErrNotFound"

\* C7: FetchEntitiesRange pages exactly when the range has more than 100 ids
\* and the page collaborator is configured, and then issues page requests
\* only; in every other case it issues fetchEntity calls only.
C7_StrategyChoice ==
    (op = "FetchEntitiesRange")
    => IF RangeLen(idRange) > 100 /\ hasPageFn
       THEN /\ pc \in {"page_fetch", "select", "done"}
            /\ \A k \in 1 .. Len(calls) : calls[k].fn = "fetchEntitiesPage"
            /\ Finished => calls # <<>>
       ELSE /\ pc \in {"seq_loop", "done"}
            /\ \A k \in 1 .. Len(calls) : calls[k].fn = "fetchEntity"
            /\ Finished => calls # <<>>

C7_Witness ==
    /\ Finished /\ op = "FetchEntitiesRange" /\ ~hasPageFn
    /\ RangeLen(idRange) = 101
    /\ Len(calls) = 101 /\ ret.kind = "ok"

\* C8: FetchLastEntityId calls fetchLastEntityId once and returns its error
\* unchanged with its id; a non-negative id of a successful call is returned
\* as it is.
C8_LastIdForwarded ==
    (op = "FetchLastEntityId")
    => /\ Finished
       /\ Len(calls) = 1
       /\ calls[1].fn = "fetchLastEntityId"
       /\ ret.err = calls[1].err
       /\ (ret.kind = "err") = (calls[1].err # "nil")
       /\ calls[1].id >= 0 => ret.id = calls[1].id

C8_Witness ==
    /\ Finished /\ op = "FetchLastEntityId"
    /\ calls[1].err = "ErrTimeout" /\ calls[1].id = 7
    /\ ret.err = "ErrTimeout" /\ ret.id = 7

-----------------------------------------------------------------------------
(* Vocabulary of the codec properties.                                     *)
Members == {"index", "validatorIndex", "address", "amount"}

Member(j, m) ==
    CASE m = "index" -> j.index
      [] m = "validatorIndex" -> j.validatorIndex
      [] m = "address" -> j.address
      [] OTHER -> j.amount

\* the member's value as the payload spells it
MemberValue(j, m) ==
    IF m = "address" THEN DecodeAddress(j.address.text)
    ELSE DecodeUint64(Member(j, m).text)

Field(v, m) ==
    CASE m = "index" -> v.Index
      [] m = "validatorIndex" -> v.Validator
      [] m = "address" -> v.Address
      [] OTHER -> v.Amount

\* every member of the payload is missing, null, or a well-formed string
WellFormed(j) ==
    \A m \in Members :
        \/ Member(j, m).kind \in {"absent", "null"}
        \/ Member(j, m).kind = "string" /\ MemberValue(j, m).err = "nil"

\* C9: MarshalJSON writes all four members, and UnmarshalJSON of what it wrote,
\* into a fresh record, gives the encoded value back with no error.
C9_RoundTrip ==
    /\ cpc \in {"marshalled", "roundtrip"}
       => \A m \in Members : Member(input, m).kind = "string"
    /\ (cpc = "roundtrip" /\ before = ZeroWithdrawal)
       => (cerr = "nil" /\ w = orig)

C9_Witness ==
    /\ cpc = "roundtrip" /\ before = ZeroWithdrawal
    /\ orig = [Index |-> 1, Validator |-> 2, Address |-> CountingAddress,
               Amount |-> 5]
    /\ input.amount = JString(<<"0", "x", "5">>)
    /\ Len(input.address.text) = 2 + 2 * AddressLength
    /\ w = orig /\ cerr = "nil"

\* C10 as stated: decoding a payload with members missing succeeds, whatever
\* the target; a missing member leaves the target's field at its zero value
\* and a member that is there sets it.
C10_AsStated ==
    (cpc = "decoded" /\ WellFormed(input))
    => /\ cerr = "nil"
       /\ \A m \in Members :
             /\ Member(input, m).kind = "absent"
                => Field(w, m) = Field(ZeroWithdrawal, m)
             /\ Member(input, m).kind = "string"
                => Field(w, m) = MemberValue(input, m).val

\* C10 amended: the same, but a missing member leaves the target's field as it
\* was before the call, which is the zero value when the target was fresh.
C10_MissingMembersKeepTarget ==
    (cpc = "decoded" /\ WellFormed(input))
    => /\ cerr = "nil"
       /\ \A m \in Members :
             /\ Member(input, m).kind = "absent"
                => Field(w, m) = Field(before, m)
             /\ Member(input, m).kind = "string"
                => Field(w, m) = MemberValue(input, m).val

C10_Witness ==
    /\ cpc = "decoded" /\ before = UsedWithdrawal /\ cerr = "nil"
    /\ input.amount = JAbsent /\ input.validatorIndex = JAbsent
    /\ input.index = JString(<<"0", "x", "1">>)
    /\ input.address = JString(EncodeAddress(CountingAddress))
    /\ w = [Index |-> 1, Validator |-> 8, Address |-> CountingAddress, Amount |-> 7]

\* C11: the page requests of one FetchAllEntities run are made one at a time,
\* for the pages 1, 2, 3, ... in this order, none left out and none asked
\* twice, and each of them with the limit 10000.
C11_PagesConsecutiveFromOne ==
    InBulk
    => /\ \A k \in 1 .. Len(calls) :
             /\ calls[k].fn = "fetchEntitiesPage"
             /\ calls[k].arg = k
             /\ calls[k].limit = 10000
       /\ pc = "page_fetch" => page = Len(calls) + 1
       /\ pc = "select" => page = Len(calls)

C11_Witness ==
    /\ Finished /\ op = "FetchAllEntities" /\ Len(calls) = 3
    /\ calls[1].arg = 1 /\ calls[2].arg = 2 /\ calls[3].arg = 3
    /\ calls[2].ents # <<>> /\ calls[3].limit = 10000

\* C12: as long as it runs, FetchAllEntities has seen only non-empty pages and
\* no error; it returns behind the first empty or failed page k, after exactly
\* k page requests and never behind a non-empty page, so it has not returned
\* while a listing without end keeps answering; and once the listing is one
\* with an end, the call does return.
C12_ReturnsAtFirstEmptyOrFailedPage ==
    /\ []((InBulk /\ hasPageFn)
          => /\ \A k \in 1 .. Len(calls) - 1 :
                   calls[k].err = "nil" /\ calls[k].ents # <<>>
             /\ Finished
                => /\ calls # <<>>
                   /\ LastCall.err # "nil" \/ LastCall.ents = <<>>
                   /\ page = Len(calls)
             /\ ~Finished => (AllCallsSucceeded /\ pc \in {"page_fetch", "select"})
             /\ (upstream.order = "endless" /\ AllCallsSucceeded) => ~Finished)
    /\ (pc \in {"page_fetch", "select"} /\ calls # <<>> /\ upstream.order # "endless")
          ~> Finished

C12_Witness ==
    /\ Finished /\ op = "FetchAllEntities" /\ ret.kind = "ok"
    /\ upstream.n = 101 /\ upstream.pageSize = 60
    /\ page = 3 /\ Len(calls) = 3 /\ calls[3].ents = <<>>

C12_WitnessEndless ==
    /\ ~Finished /\ op = "FetchAllEntities" /\ upstream.order = "endless"
    /\ Len(calls) = MaxPages /\ Len(entities) = MaxPages

\* C13: when the pages deliver exactly the ids 1 .. N once each, in whatever
\* order, and block starts grow with the id, the bulk strategy returns for a
\* range with 1 <= Start <= End <= N what the sequential strategy returns for
\* it: the entity with id Start + i at zero-based position i.
C13_BulkEqualsSequential ==
    /\ (Finished /\ op = "FetchEntitiesRange" /\ InBulk /\ AllCallsSucceeded
          /\ 1 <= idRange.Start /\ idRange.End <= Len(Delivered(calls))
          /\ DenseCollection(Delivered(calls)))
       => /\ ret.kind = "ok"
          /\ ret.val = SequentialResult(idRange)
          /\ \A k \in 1 .. Len(ret.val) : ret.val[k].id = idRange.Start + k - 1
    /\ (Finished /\ ~InBulk /\ ret.kind = "ok"
          /\ op \in {"FetchEntitiesRange", "FetchEntitiesRangeSequentially"})
       => ret.val = SequentialResult(idRange)

C13_Witness ==
    /\ Finished /\ op = "FetchEntitiesRange" /\ InBulk /\ AllCallsSucceeded
    /\ idRange = ClosedRange(1, 101)
    /\ Len(calls) = 3 /\ calls[1].ents[1] = Entity(51)
    /\ DenseCollection(Delivered(calls)) /\ Len(Delivered(calls)) = 101
    /\ ret.kind = "ok" /\ ret.val[1] = Entity(1) /\ ret.val[101] = Entity(101)

\* C14: the progress check comes only behind a page that was neither empty nor
\* failed, it is always able to run, and with or without a tick it leaves the
\* accumulator, the requests made and the result alone and moves on to the
\* request for the next page; it reports exactly when a tick is waiting, and a
\* report carries the current page number and the number of entities
\* accumulated up to and including that page.
C14_ProgressCheckIsTransparent ==
    /\ [](/\ pc = "select"
             => /\ calls # <<>>
                /\ LastCall.err = "nil" /\ LastCall.ents # <<>>
                /\ ENABLED ProgressCheck
          /\ \A k \in 1 .. Len(log) :
                log[k].msg = "progress"
                => /\ log[k].page \in 1 .. Len(calls)
                   /\ log[k].len = Len(Delivered(SubSeq(calls, 1, log[k].page))))
    /\ [][pc = "select"
           => /\ <<entities, calls, ret, upstream, allEntities>>'
                    = <<entities, calls, ret, upstream, allEntities>>
              /\ \/ pc' = "select" /\ page' = page /\ log' = log
                 \/ /\ pc' = "page_fetch"
                    /\ page' = page + 1
                    /\ log' = IF ticker.pending
                              THEN Append(log, [msg |-> "progress", page |-> page,
                                                len |-> Len(entities)])
                              ELSE log]_vars

C14_Witness ==
    /\ pc = "page_fetch" /\ page = 3 /\ Len(calls) = 2
    /\ Len(calls[1].ents) = 60 /\ Len(entities) = 101
    /\ Len(log) = 1
    /\ log[1] = [msg |-> "progress", page |-> 2, len |-> 101]

\* C15: every collaborator call is handed the context of the caller; a call
\* whose context is cancelled stays in its loop, able to make the next
\* collaborator call, and goes on after every successful answer exactly as
\* without the cancellation; the only early return is the error a
\* collaborator call returned.
C15_CancellationLeftToCollaborators ==
    /\ [](/\ \A k \in 1 .. Len(calls) :
                calls[k].ctx.name = "caller"
                /\ (calls[k].ctx.cancelled => ctx.cancelled)
          /\ (ctx.cancelled /\ op # "none" /\ ~Finished)
             => /\ pc \in {"seq_loop", "page_fetch", "select"}
                /\ pc = "seq_loop" => ENABLED SeqStep
                /\ (pc = "page_fetch" /\ page <= MaxPages) => ENABLED FetchPageStep
                /\ pc = "select" => ENABLED ProgressCheck
          /\ (Finished /\ ret.kind = "err")
             => (calls # <<>> /\ LastCall.err # "nil" /\ ret.err = LastCall.err)
          /\ (Finished /\ AllCallsSucceeded /\ op = "FetchEntitiesRangeSequentially")
             => (ret.kind = "ok" /\ Len(calls) = RangeLen(idRange))
          /\ (Finished /\ AllCallsSucceeded /\ op = "FetchAllEntities" /\ hasPageFn)
             => (ret.kind = "ok" /\ LastCall.ents = <<>>))
    /\ [][(ctx.cancelled /\ Len(calls') = Len(calls) + 1
             /\ calls'[Len(calls')].err = "nil")
           => /\ pc = "seq_loop"
                 => pc' = (IF i < idRange.End THEN "seq_loop" ELSE "done")
              /\ pc = "page_fetch"
                 => pc' = (IF calls'[Len(calls')].ents # <<>> THEN "select" ELSE "done")]_vars

C15_Witness ==
    /\ Finished /\ op = "FetchEntitiesRangeSequentially" /\ ret.kind = "ok"
    /\ Len(calls) = 3 /\ Len(ret.val) = 3
    /\ ~calls[1].ctx.cancelled /\ calls[2].ctx.cancelled /\ calls[3].ctx.cancelled

C15_WitnessPages ==
    /\ Finished /\ op = "FetchAllEntities" /\ ret.kind = "ok"
    /\ Len(calls) = 3 /\ Len(ret.val) = 101
    /\ calls[1].ctx.cancelled /\ calls[3].ctx.cancelled

C15_WitnessAbort ==
    /\ Finished /\ op = "FetchAllEntities" /\ ret.kind = "err"
    /\ ret.err = "context.Canceled" /\ Len(calls) = 2

\* the i-th answer of each fetchEntity call in cs, in the order of the calls
AnswersOf(cs) == [k \in 1 .. Len(cs) |-> cs[k].ents[1]]

\* the locals, the accumulator and the result of the call in goroutine p are
\* those of a call that ran alone and was given the answers this call was given
RunsAlone(p) ==
    LET l     == procs[p]
        acc   == cells[EntitiesCell(p)]
        cs    == l.calls
        last  == cs[Len(cs)]
        pages == Delivered(cs)
        bulk  == \/ l.op = "FetchAllEntities"
                 \/ l.op = "FetchEntitiesRange"
                    /\ UseBulk(RangeLen(l.idRange), hasPageFn)
    IN /\ l.pc = "idle" => (l = IdleCall /\ cells[p] = <<>>)
       /\ l.pc \in {"page_fetch", "select"}
          => /\ bulk
             /\ \A k \in 1 .. Len(cs) :
                   cs[k].fn = "fetchEntitiesPage" /\ cs[k].arg = k
             /\ l.page = (IF l.pc = "select" THEN Len(cs) ELSE Len(cs) + 1)
             /\ acc = pages
       /\ l.pc = "seq_loop"
          => /\ ~bulk
             /\ \A k \in 1 .. Len(cs) :
                   cs[k].fn = "fetchEntity" /\ cs[k].arg = l.idRange.Start + k - 1
             /\ l.i = l.idRange.Start + Len(cs)
             /\ l.results = AnswersOf(cs)
       /\ l.pc = "done"
          => IF l.op = "FetchLastEntityId"
             THEN Len(cs) = 1 /\ l.ret = LastIdResult(cs[1].id, cs[1].err)
             ELSE IF bulk /\ ~hasPageFn
             THEN cs = <<>> /\ l.ret = RetPanic
             ELSE IF last.err # "nil"
             THEN l.ret = RetErr(<<>>, last.err)
             ELSE IF ~bulk
             THEN /\ Len(cs) = RangeLen(l.idRange)
                  /\ l.ret = RetOk(AnswersOf(cs))
             ELSE IF l.op = "FetchAllEntities"
             THEN \E sorted \in SortOutcomes(pages) : l.ret = RetOk(sorted)
             ELSE \E sorted \in SortOutcomes(pages), cp \in Capacities(pages) :
                     l.ret = BulkSlice(sorted, cp, l.idRange)

\* C16: with two calls running concurrently, in any mix of the four methods
\* and however their steps interleave, the page counter, the accumulator and
\* the result of each call are those of the same call run alone on the
\* answers to its own requests; a goroutine between calls keeps nothing.
C16_ConcurrentCallsIndependent == \A p \in Procs : RunsAlone(p)

C16_Witness ==
    /\ procs["a"].pc = "done" /\ procs["a"].op = "FetchAllEntities"
    /\ procs["a"].ret = RetOk(<<Entity(1), Entity(2)>>)
    /\ procs["a"].upstream.order = "rot" /\ Len(procs["a"].calls) = 3
    /\ procs["b"].pc = "select" /\ procs["b"].op = "FetchAllEntities"
    /\ procs["b"].page = 1 /\ cells["b"] = <<Entity(1)>>
    /\ timers["a"].state = "stopped" /\ timers["b"].state = "running"

\* the call in goroutine p runs or ran FetchAllEntities
RanFetchAll(p) ==
    \/ procs[p].op = "FetchAllEntities"
    \/ procs[p].op = "FetchEntitiesRange"
       /\ UseBulk(RangeLen(procs[p].idRange), hasPageFn)

\* C17: the ticker belongs to one run of FetchAllEntities: the run starts it
\* afresh, it is running exactly while the run is in its loop, and it is
\* stopped when the run has returned, whether with the collection, with a
\* page's error or abnormally; calls that do not page have none; and the
\* ticker of one call changes only by that call's own steps and its own ticks.
C17_TickerLocalAndStopped ==
    /\ [](\A p \in Procs :
             LET t == timers[TickerCell(p)]
             IN /\ procs[p].pc \in {"page_fetch", "select"} => t.state = "running"
                /\ (procs[p].pc = "done" /\ RanFetchAll(p)) => t.state = "stopped"
                /\ ~RanFetchAll(p) => t = NoTicker)
    /\ [][\A p \in Procs :
             /\ (procs[p].pc = "idle" /\ procs'[p].pc = "page_fetch")
                => timers'[p] = [state |-> "running", pending |-> FALSE]
             /\ (timers'[p] # timers[p] /\ procs'[p] = procs[p])
                => /\ timers[p] = [state |-> "running", pending |-> FALSE]
                   /\ timers'[p] = [state |-> "running", pending |-> TRUE]]_vars

C17_Witness ==
    /\ procs["a"].pc = "done" /\ procs["a"].op = "FetchAllEntities"
    /\ procs["a"].ret.kind = "err" /\ Len(procs["a"].calls) = 2
    /\ timers["a"] = [state |-> "stopped", pending |-> TRUE]
    /\ procs["b"].pc = "page_fetch" /\ procs["b"].page = 2
    /\ timers["b"] = [state |-> "running", pending |-> FALSE]

\* the elements of the sequence s
ElementsOf(s) == {s[k] : k \in 1 .. Len(s)}

\* C18 as stated: FetchEntitiesRange for a range of more than 100 ids, whatever
\* the pages delivered and also for Start = 0, returns an error or exactly
\* Len(R) entities that pages delivered, reading only positions of the sorted
\* collection; it never fails abnormally.
C18_AsStated ==
    (Finished /\ op = "FetchEntitiesRange" /\ RangeLen(idRange) > 100 /\ hasPageFn)
    => \/ ret.kind = "err"
       \/ /\ ret.kind = "ok"
          /\ Len(ret.val) = RangeLen(idRange)
          /\ ElementsOf(ret.val) \subseteq ElementsOf(Delivered(calls))
          /\ 1 <= idRange.Start /\ idRange.End <= Len(allEntities)

\* C18 amended: the same when 1 <= Start and End is within the delivered
\* collection.  With Start = 0 the slice bounds are out of range and the call
\* panics; with fewer than End entities delivered it panics, or, when the
\* spare capacity of the collection reaches End, returns Len(R) entities of
\* which those behind the end of the collection are zero values no page
\* delivered.
C18_SliceWithinCollectionOrPanic ==
    (Finished /\ op = "FetchEntitiesRange" /\ RangeLen(idRange) > 100 /\ hasPageFn)
    => LET pages == Delivered(calls)
           n     == Len(pages)
       IN IF ~AllCallsSucceeded
          THEN ret.kind = "err" /\ ret.err = LastCall.err
          ELSE IF 1 <= idRange.Start /\ idRange.End <= n
          THEN /\ ret.kind = "ok"
               /\ Len(ret.val) = RangeLen(idRange)
               /\ Len(allEntities) = n
               /\ ElementsOf(ret.val) \subseteq ElementsOf(pages)
               /\ \A k \in 1 .. Len(ret.val) :
                     ret.val[k] = allEntities[idRange.Start - 1 + k]
          ELSE IF idRange.Start = 0
          THEN ret.kind = "panic"
          ELSE \/ ret.kind = "panic"
               \/ /\ ret.kind = "ok"
                  /\ Len(ret.val) = RangeLen(idRange)
                  /\ ZeroEntity \notin ElementsOf(pages)
                  /\ \A k \in 1 .. Len(ret.val) :
                        ret.val[k] = (IF idRange.Start - 1 + k <= n
                                      THEN allEntities[idRange.Start - 1 + k]
                                      ELSE ZeroEntity)

C18_Witness ==
    /\ Finished /\ op = "FetchEntitiesRange" /\ hasPageFn /\ AllCallsSucceeded
    /\ idRange = ClosedRange(2, 103) /\ Len(Delivered(calls)) = 101
    /\ ret.kind = "ok" /\ Len(ret.val) = 102
    /\ ret.val[100] = Entity(101)
    /\ ret.val[101] = ZeroEntity /\ ret.val[102] = ZeroEntity

C18_WitnessPanic ==
    /\ Finished /\ op = "FetchEntitiesRange" /\ hasPageFn /\ AllCallsSucceeded
    /\ idRange = ClosedRange(1, 101) /\ Len(calls) = 1 /\ Delivered(calls) = <<>>
    /\ ret.kind = "panic"

C18_WitnessWithin ==
    /\ Finished /\ op = "FetchEntitiesRange" /\ hasPageFn /\ AllCallsSucceeded
    /\ idRange = ClosedRange(1, 102) /\ Len(Delivered(calls)) = 103
    /\ ret.kind = "ok" /\ Len(ret.val) = 102
    /\ ret.val[102] \in ElementsOf(Delivered(calls))

\* C19: FetchLastEntityId returns the collaborator's id unchanged when it is
\* not negative and as 2^w - k when it is -k (w the width of a word), with
\* the collaborator's error or none and never one of its own; and
\* FetchEntitiesRangeSequentially hands fetchEntity the id unchanged below
\* 2^(w-1) and as the negative number id - 2^w from 2^(w-1) on.
C19_SignConversionsUnchecked ==
    /\ (Finished /\ op = "FetchLastEntityId")
       => /\ Len(calls) = 1
          /\ calls[1].id >= 0 => ret.id = calls[1].id
          /\ calls[1].id < 0 => ret.id = 2 ^ WordBits + calls[1].id
          /\ ret.err = calls[1].err
          /\ ret.kind = (IF calls[1].err = "nil" THEN "ok" ELSE "err")
    /\ op = "FetchEntitiesRangeSequentially"
       => \A k \in 1 .. Len(calls) :
             LET id == idRange.Start + k - 1
             IN /\ calls[k].fn = "fetchEntity"
                /\ id < 2 ^ (WordBits - 1) => calls[k].arg = id
                /\ id >= 2 ^ (WordBits - 1)
                   => (calls[k].arg = id - 2 ^ WordBits /\ calls[k].arg < 0)

C19_Witness ==
    /\ Finished /\ op = "FetchLastEntityId"
    /\ calls[1].id = -2 /\ calls[1].err = "ErrTimeout"
    /\ ret.id = UintMod - 2 /\ ret.err = "ErrTimeout"

C19_WitnessSequential ==
    /\ Finished /\ op = "FetchEntitiesRangeSequentially" /\ ret.kind = "ok"
    /\ idRange.Start = UintMod \div 2 - 1 /\ Len(calls) = 3
    /\ calls[1].arg = UintMod \div 2 - 1
    /\ calls[2].arg = -(UintMod \div 2)
    /\ calls[3].arg = 1 - UintMod \div 2
====
